---- MODULE Spec2Model ----
(***************************************************************************)
(* Order-fulfilment core of the restaurant API: cart -> order assembly,    *)
(* coupon engine, inventory and the order status state machine.            *)
(* Money (Decimal, two places) is counted in cents; a percentage           *)
(* discount_value is counted in hundredths of a percent.  Strings that the *)
(* code transforms (coupon codes) are sequences of one-character strings.  *)
(***************************************************************************)
EXTENDS Integers, Sequences, FiniteSets, TLC

(* ----------------------------- bounds ---------------------------------- *)
MaxOrders == 1          \* orders created in one behaviour
MaxQty == 1             \* largest quantity of a cart line
MaxCartItemId == 2      \* CartItem rows inserted in one behaviour
MaxTime == 1            \* the clock runs 0..MaxTime
MaxHistory == 4         \* OrderStatusHistory rows of one order

(* ------------------------ program constants ---------------------------- *)
MAX_QUANTITY_PER_ITEM == 99
None == -1              \* a NULL column / a None argument

(* ----------------------------- fixtures -------------------------------- *)
Users == {"u1", "u2"}
Products == {1, 2}
ProductName == [p \in Products |-> IF p = 1 THEN "Burger" ELSE "Pizza"]
Prices == {500, 1000}
Addresses == {1, 2}
AddressOwner == [a \in Addresses |-> IF a = 1 THEN "u1" ELSE "u2"]
AddressOf(u) == CHOOSE a \in Addresses : AddressOwner[a] = u

STATUS_CHOICES == <<"pending", "preparing", "on_the_way", "delivered", "cancelled">>
StatusTargets == {"pending", "preparing", "on_the_way", "delivered", "cancelled", "refunded"}

CodeS1 == <<"S", "1">>
CodeF8 == <<"F", "8">>
CodeX == <<"X">>
RawCodes == {<< >>, <<" ", "s", "1", " ">>, <<"f", "8">>, <<"X">>, <<"Z">>, <<" ">>}

(* the codes sent where the coupon is not the subject *)
CheckoutCodes == {<< >>, <<" ", "s", "1", " ">>}

(* requests that may be served at the same time by different workers *)
Requests == {"r1", "r2"}
Idle == [kind |-> "idle"]

VARIABLES product, inventory, cartItems, cartSeq, orders, orderItems, history,
          coupon, couponUsages, now, last,
          inventoryTransactions,   \* rows of menu.InventoryTransaction
          inflight                 \* per request: what it has read so far

vars == <<product, inventory, cartItems, cartSeq, orders, orderItems, history,
          coupon, couponUsages, now, last, inventoryTransactions, inflight>>

(* the rows of the database that a transaction reads and writes *)
DB == [product |-> product, inventory |-> inventory, cartItems |-> cartItems,
       orders |-> orders, orderItems |-> orderItems, history |-> history,
       coupon |-> coupon, couponUsages |-> couponUsages]

Commit(db) ==
    /\ orders' = db.orders
    /\ history' = db.history
    /\ orderItems' = db.orderItems
    /\ cartItems' = db.cartItems
    /\ inventory' = db.inventory
    /\ product' = db.product
    /\ coupon' = db.coupon
    /\ couponUsages' = db.couponUsages

NoErr == [msg |-> "", names |-> << >>, stock |-> << >>]
Err(m) == [msg |-> m, names |-> << >>, stock |-> << >>]

Response(op, ok, err) == [op |-> op, ok |-> ok, err |-> err]

(* --------------------------- pure helpers ------------------------------ *)

RECURSIVE LineTotal(_)
LineTotal(items) ==
    IF items = << >> THEN 0
    ELSE Head(items).price * Head(items).quantity + LineTotal(Tail(items))

UserCartItems(db, u) == SelectSeq(db.cartItems, LAMBDA it : it.user = u)

OrderItemsOf(db, oid) == SelectSeq(db.orderItems, LAMBDA it : it.order = oid)

HasInventory(db, p) == p \in DOMAIN db.inventory


(* coupon_code.upper().strip() *)
UpperChar(c) ==
    CASE c = "s" -> "S" [] c = "f" -> "F" [] c = "x" -> "X" [] c = "z" -> "Z"
      [] OTHER -> c

Upper(s) == [i \in 1..Len(s) |-> UpperChar(s[i])]

RECURSIVE LStrip(_)
LStrip(s) == IF s # << >> /\ Head(s) = " " THEN LStrip(Tail(s)) ELSE s

RECURSIVE RStrip(_)
RStrip(s) ==
    IF s # << >> /\ s[Len(s)] = " " THEN RStrip(SubSeq(s, 1, Len(s) - 1)) ELSE s

Strip(s) == RStrip(LStrip(s))

NormalizeCode(raw) == Strip(Upper(raw))

(* Decimal.quantize(Decimal("0.01")) of n/d under ROUND_HALF_EVEN, n >= 0 *)
Quantize(n, d) ==
    LET q == n \div d
        r == n % d
    IN  IF 2 * r > d THEN q + 1
        ELSE IF 2 * r < d THEN q
        ELSE IF q % 2 = 0 THEN q ELSE q + 1

Min(a, b) == IF a < b THEN a ELSE b

(* ------------------------------ coupons -------------------------------- *)
InitialCoupons ==
    (CodeS1 :> [discount_type |-> "percentage", discount_value |-> 1000,
                minimum_order_amount |-> 1000, maximum_discount_amount |-> None,
                max_usage_total |-> 1, max_usage_per_user |-> 1,
                current_usage_count |-> 0, is_user_specific |-> FALSE,
                allowed_users |-> {}, valid_from |-> 0, valid_until |-> 9,
                is_active |-> TRUE])
    @@
    (CodeF8 :> [discount_type |-> "fixed", discount_value |-> 800,
                minimum_order_amount |-> 0, maximum_discount_amount |-> None,
                max_usage_total |-> None, max_usage_per_user |-> 1,
                current_usage_count |-> 0, is_user_specific |-> TRUE,
                allowed_users |-> {"u1"}, valid_from |-> 0, valid_until |-> 0,
                is_active |-> TRUE])
    @@
    (CodeX :> [discount_type |-> "fixed", discount_value |-> 100,
               minimum_order_amount |-> 0, maximum_discount_amount |-> None,
               max_usage_total |-> None, max_usage_per_user |-> 1,
               current_usage_count |-> 0, is_user_specific |-> FALSE,
               allowed_users |-> {}, valid_from |-> 0, valid_until |-> 9,
               is_active |-> FALSE])

IsValid(c, t) ==
    /\ c.is_active
    /\ c.valid_from <= t /\ t <= c.valid_until
    /\ (c.max_usage_total = None \/ c.current_usage_count < c.max_usage_total)

UserUsageCount(db, code, u) ==
    Len(SelectSeq(db.couponUsages, LAMBDA r : r.coupon = code /\ r.user = u))

(* Coupon.can_user_use: "" when the user may use it, else the message *)
CanUserUse(db, code, u, t) ==
    LET c == db.coupon[code]
    IN  IF ~IsValid(c, t) THEN "Coupon is not valid"
        ELSE IF c.is_user_specific /\ u \notin c.allowed_users
             THEN "This coupon is not available for your account"
        ELSE IF UserUsageCount(db, code, u) >= c.max_usage_per_user
             THEN "You have already used this coupon"
        ELSE ""

(* Coupon.calculate_discount: <<discount_amount, final_amount>> *)
(* a calculation without the final min(discount, order_amount) *)
CalculateDiscountUnclamped(c, order_amount) ==
    IF order_amount < c.minimum_order_amount THEN <<0, order_amount>>
    ELSE LET d == IF c.discount_type = "percentage"
                  THEN Quantize(order_amount * c.discount_value, 10000)
                  ELSE c.discount_value
         IN  <<d, order_amount - d>>

CalculateDiscount(c, order_amount) ==
    IF order_amount < c.minimum_order_amount THEN <<0, order_amount>>
    ELSE LET pct == Quantize(order_amount * c.discount_value, 10000)
             raw == IF c.discount_type = "percentage"
                    THEN IF c.maximum_discount_amount # None
                            /\ c.maximum_discount_amount # 0
                            /\ pct > c.maximum_discount_amount
                         THEN c.maximum_discount_amount
                         ELSE pct
                    ELSE c.discount_value
             discount == Min(raw, order_amount)
         IN  <<discount, order_amount - discount>>

IncrementUsageNotSaved(db, code) == db

(* a counter that is bumped twice *)
IncrementUsageTwice(db, code) ==
    [db EXCEPT !.coupon[code].current_usage_count = @ + 2]

IncrementUsage(db, code) ==
    [db EXCEPT !.coupon[code].current_usage_count = @ + 1]

ApplyCouponLenient(db, u, code, subtotal, t) ==
    IF code \notin DOMAIN db.coupon
    THEN [err |-> Err("Invalid coupon code"), discount |-> 0, final |-> subtotal]
    ELSE LET can == CanUserUse(db, code, u, t)
             c == db.coupon[code]
         IN  IF can # ""
             THEN [err |-> Err(can), discount |-> 0, final |-> subtotal]
             ELSE [err |-> NoErr,
                   discount |-> CalculateDiscount(c, subtotal)[1],
                   final |-> CalculateDiscount(c, subtotal)[2]]

(* OrderService._apply_coupon: err = NoErr when the coupon applies *)
ApplyCoupon(db, u, code, subtotal, t) ==
    IF code \notin DOMAIN db.coupon
    THEN [err |-> Err("Invalid coupon code"), discount |-> 0, final |-> subtotal]
    ELSE LET can == CanUserUse(db, code, u, t)
             c == db.coupon[code]
         IN  IF can # ""
             THEN [err |-> Err(can), discount |-> 0, final |-> subtotal]
             ELSE IF subtotal < c.minimum_order_amount
             THEN [err |-> Err("Minimum order amount required for this coupon"),
                   discount |-> 0, final |-> subtotal]
             ELSE [err |-> NoErr,
                   discount |-> CalculateDiscount(c, subtotal)[1],
                   final |-> CalculateDiscount(c, subtotal)[2]]

(* ------------------------------- cart ---------------------------------- *)
LineIndex(db, u, p) ==
    {i \in 1..Len(db.cartItems) : db.cartItems[i].user = u /\ db.cartItems[i].product = p}

ClearEveryCart(db, u) == [db EXCEPT !.cartItems = << >>]

ClearCart(db, u) ==
    [db EXCEPT !.cartItems = SelectSeq(db.cartItems, LAMBDA it : it.user # u)]

ValidateCartIgnoringStock(db, u) ==
    LET items == UserCartItems(db, u)
        unav == SelectSeq(items, LAMBDA it : ~db.product[it.product].is_available)
    IN  IF items = << >> THEN Err("Cart is empty")
        ELSE IF unav # << >>
        THEN [msg |-> "The following products are no longer available",
              names |-> [i \in 1..Len(unav) |-> ProductName[unav[i].product]],
              stock |-> << >>]
        ELSE NoErr

ValidateCartIgnoringAvailability(db, u) ==
    LET items == UserCartItems(db, u)
        short == SelectSeq(items, LAMBDA it :
                     /\ HasInventory(db, it.product)
                     /\ db.inventory[it.product].quantity < it.quantity)
    IN  IF items = << >> THEN Err("Cart is empty")
        ELSE IF short # << >>
        THEN [msg |-> "Insufficient stock", names |-> << >>,
              stock |-> [i \in 1..Len(short) |->
                            [name |-> ProductName[short[i].product],
                             available |-> db.inventory[short[i].product].quantity]]]
        ELSE NoErr

ValidateCartAllowingEmpty(db, u) ==
    LET items == UserCartItems(db, u)
        unav == SelectSeq(items, LAMBDA it : ~db.product[it.product].is_available)
        short == SelectSeq(items, LAMBDA it :
                     /\ HasInventory(db, it.product)
                     /\ db.inventory[it.product].quantity < it.quantity)
    IN  IF unav # << >>
        THEN [msg |-> "The following products are no longer available",
              names |-> [i \in 1..Len(unav) |-> ProductName[unav[i].product]],
              stock |-> << >>]
        ELSE IF short # << >>
        THEN [msg |-> "Insufficient stock", names |-> << >>,
              stock |-> [i \in 1..Len(short) |->
                            [name |-> ProductName[short[i].product],
                             available |-> db.inventory[short[i].product].quantity]]]
        ELSE NoErr

(* CartService.validate_cart_for_checkout: NoErr when the cart may check out *)
ValidateCartForCheckout(db, u) ==
    LET items == UserCartItems(db, u)
        unav == SelectSeq(items, LAMBDA it : ~db.product[it.product].is_available)
        short == SelectSeq(items, LAMBDA it :
                     /\ HasInventory(db, it.product)
                     /\ db.inventory[it.product].quantity < it.quantity)
    IN  IF items = << >> THEN Err("Cart is empty")
        ELSE IF unav # << >>
        THEN [msg |-> "The following products are no longer available",
              names |-> [i \in 1..Len(unav) |-> ProductName[unav[i].product]],
              stock |-> << >>]
        ELSE IF short # << >>
        THEN [msg |-> "Insufficient stock", names |-> << >>,
              stock |-> [i \in 1..Len(short) |->
                            [name |-> ProductName[short[i].product],
                             available |-> db.inventory[short[i].product].quantity]]]
        ELSE NoErr

(* ------------------------------ orders --------------------------------- *)
Range(s) == {s[i] : i \in 1..Len(s)}

AllOrderFields ==
    {"user", "address", "subtotal", "discount_amount", "total_price",
     "coupon_code", "status", "payment_status"}

(* Order.save of a new instance (pk is None): insert, then one history row. *)
(* history[oid] holds the status column of the OrderStatusHistory rows of    *)
(* order oid, in creation order                                              *)
OrderInsert(db, rec) ==
    [db EXCEPT !.orders = Append(@, rec),
               !.history = Append(@, <<rec.status>>)]

OrderSaveAlwaysLogs(db, oid, rec, update_fields) ==
    LET old == db.orders[oid]
        Pick(f) == IF f \in update_fields THEN rec[f] ELSE old[f]
        stored == [user |-> Pick("user"), address |-> Pick("address"),
                   subtotal |-> Pick("subtotal"),
                   discount_amount |-> Pick("discount_amount"),
                   total_price |-> Pick("total_price"),
                   coupon_code |-> Pick("coupon_code"),
                   status |-> Pick("status"),
                   payment_status |-> Pick("payment_status")]
    IN  [db EXCEPT !.orders[oid] = stored,
                   !.history[oid] = Append(@, rec.status)]

(* Order.save(update_fields=...) of the in-memory instance rec of row oid;  *)
(* update_fields=None is AllOrderFields                                     *)
OrderSave(db, oid, rec, update_fields) ==
    LET old == db.orders[oid]
        Pick(f) == IF f \in update_fields THEN rec[f] ELSE old[f]
        stored == [user |-> Pick("user"), address |-> Pick("address"),
                   subtotal |-> Pick("subtotal"),
                   discount_amount |-> Pick("discount_amount"),
                   total_price |-> Pick("total_price"),
                   coupon_code |-> Pick("coupon_code"),
                   status |-> Pick("status"),
                   payment_status |-> Pick("payment_status")]
        written == [db EXCEPT !.orders[oid] = stored]
    IN  IF "status" \in update_fields /\ old.status # rec.status
        THEN [written EXCEPT !.history[oid] = Append(@, rec.status)]
        ELSE written

(* OrderItem.objects.create -> OrderItem.save -> update_order_total, on the  *)
(* transaction state st = [db, order (the in-memory Order), oid]            *)
OrderItemCreate(st, line, price) ==
    LET item == [order |-> st.oid, product_id |-> line.product,
                 product_name |-> ProductName[line.product],
                 price |-> price, quantity |-> line.quantity]
        db1 == [st.db EXCEPT !.orderItems = Append(@, item)]
        subtotal == LineTotal(OrderItemsOf(db1, st.oid))
        o2 == [st.order EXCEPT !.subtotal = subtotal,
                               !.total_price = subtotal - st.order.discount_amount]
    IN  IF st.order.subtotal # subtotal
        THEN [st EXCEPT !.db = OrderSave(db1, st.oid, o2, {"subtotal", "total_price"}),
                        !.order = o2]
        ELSE [st EXCEPT !.db = db1]

(* a save that writes the quantity and nothing else *)
InventorySaveQuantityOnly(db, p, q) == [db EXCEPT !.inventory[p].quantity = q]

(* ProductInventory.save(update_fields=['quantity']) with the new quantity q *)
InventorySave(db, p, q) ==
    LET db1 == [db EXCEPT !.inventory[p].quantity = q]
    IN  IF db.inventory[p].auto_disable_on_zero /\ q = 0 /\ db1.product[p].is_available
        THEN [db1 EXCEPT !.product[p].is_available = FALSE]
        ELSE db1

DecrementInventory(db, line) ==
    IF HasInventory(db, line.product)
    THEN InventorySave(db, line.product,
                       db.inventory[line.product].quantity - line.quantity)
    ELSE db

CouponUsageCreate(db, code, u, oid, subtotal, discount, final) ==
    [db EXCEPT !.couponUsages =
        Append(@, [coupon |-> code, user |-> u, order_id |-> oid,
                   order_amount |-> subtotal, discount_amount |-> discount,
                   final_amount |-> final])]

(* the writes of the transaction.atomic() block of create_order, in order;  *)
(* ctx: user, address, lines, subtotal, discount, final, code, coupon       *)
(* (TRUE when a Coupon was applied) and live (TRUE for the HTTP view, which *)
(* copies product.price into the OrderItem and never touches inventory)     *)
RECURSIVE LineSteps(_, _, _)
LineSteps(i, n, live) ==
    IF i > n THEN << >>
    ELSE (IF live THEN <<[kind |-> "item", line |-> i]>>
          ELSE <<[kind |-> "item", line |-> i], [kind |-> "inventory", line |-> i]>>)
         \o LineSteps(i + 1, n, live)

CreateSteps(ctx) ==
    <<[kind |-> "order", line |-> 0]>>
    \o LineSteps(1, Len(ctx.lines), ctx.live)
    \o (IF ctx.coupon
        THEN <<[kind |-> "usage", line |-> 0], [kind |-> "increment", line |-> 0]>>
        ELSE << >>)
    \o <<[kind |-> "clear", line |-> 0]>>

ApplyStep(st, step, ctx) ==
    CASE step.kind = "order" ->
           LET rec == [user |-> ctx.user, address |-> ctx.address,
                       subtotal |-> ctx.subtotal,
                       discount_amount |-> ctx.discount,
                       total_price |-> ctx.final,
                       coupon_code |-> IF ctx.coupon THEN ctx.code ELSE << >>,
                       status |-> "pending", payment_status |-> "pending"]
           IN  [db |-> OrderInsert(st.db, rec), order |-> rec,
                oid |-> Len(st.db.orders) + 1]
      [] step.kind = "item" ->
           OrderItemCreate(st, ctx.lines[step.line],
                           IF ctx.live THEN st.db.product[ctx.lines[step.line].product].price
                           ELSE ctx.lines[step.line].price)
      [] step.kind = "inventory" ->
           [st EXCEPT !.db = DecrementInventory(st.db, ctx.lines[step.line])]
      [] step.kind = "usage" ->
           [st EXCEPT !.db = CouponUsageCreate(st.db, ctx.code, ctx.user, st.oid,
                                               ctx.subtotal, ctx.discount, ctx.final)]
      [] step.kind = "increment" ->
           [st EXCEPT !.db = IncrementUsage(st.db, ctx.code)]
      [] step.kind = "clear" ->
           [st EXCEPT !.db = ClearCart(st.db, ctx.user)]

RECURSIVE RunSteps(_, _, _, _)
RunSteps(st, steps, n, ctx) ==
    IF n = 0 THEN st
    ELSE LET done == RunSteps(st, steps, n - 1, ctx)
         IN  ApplyStep(done, steps[n], ctx)

TransactionWithoutRollback(pre, post, raised) == post

(* with transaction.atomic(): the writes of a block that raised are undone *)
TransactionAtomic(pre, post, raised) == IF raised THEN pre ELSE post

ValidTransitionsReopen(current_status) ==
    CASE current_status = "pending" -> {"preparing", "cancelled"}
      [] current_status = "preparing" -> {"on_the_way", "cancelled"}
      [] current_status = "on_the_way" -> {"delivered", "cancelled"}
      [] current_status = "delivered" -> {"preparing"}
      [] OTHER -> {}

(* valid_transitions of OrderService._is_valid_status_transition *)
ValidTransitions(current_status) ==
    CASE current_status = "pending" -> {"preparing", "cancelled"}
      [] current_status = "preparing" -> {"on_the_way", "cancelled"}
      [] current_status = "on_the_way" -> {"delivered", "cancelled"}
      [] current_status = "delivered" -> {}
      [] current_status = "cancelled" -> {}
      [] OTHER -> {}

(* a check that refuses the status the order already has *)
IsValidStatusTransitionStrict(current_status, new_status) ==
    new_status \in ValidTransitions(current_status)

IsValidStatusTransition(current_status, new_status) ==
    IF current_status = new_status THEN TRUE
    ELSE new_status \in ValidTransitions(current_status)

Init ==
    /\ product = [p \in Products |-> [price |-> IF p = 1 THEN 1000 ELSE 700,
                                       is_available |-> TRUE]]
    /\ inventory = (1 :> [quantity |-> MaxQty, auto_disable_on_zero |-> TRUE])
    /\ cartItems = << >>
    /\ cartSeq = 0
    /\ orders = << >>
    /\ orderItems = << >>
    /\ history = << >>
    /\ coupon = InitialCoupons
    /\ couponUsages = << >>
    /\ now = 0
    /\ last = Response("init", TRUE, NoErr)
    /\ inventoryTransactions = << >>
    /\ inflight = [r \in Requests |-> Idle]

(* ----------------------------- operations ------------------------------ *)
Reject(op, err) ==
    /\ last' = Response(op, FALSE, err)
    /\ UNCHANGED <<inventoryTransactions, inflight, product, inventory, cartItems, cartSeq, orders, orderItems,
                   history, coupon, couponUsages, now>>

(* CartService.add_item_to_cart *)
AddItemToCart(u, p, q) ==
    LET db == DB
        idx == LineIndex(db, u, p)
        i == CHOOSE j \in idx : TRUE
        newq == IF idx = {} THEN q ELSE db.cartItems[i].quantity + q
    IN  IF q <= 0 THEN Reject("add_item_to_cart", Err("Quantity must be positive"))
        ELSE IF q > MAX_QUANTITY_PER_ITEM
        THEN Reject("add_item_to_cart", Err("Maximum quantity per item is 99"))
        ELSE IF ~product[p].is_available
        THEN Reject("add_item_to_cart", Err("This product is currently unavailable"))
        ELSE IF HasInventory(db, p) /\ inventory[p].quantity < q
        THEN Reject("add_item_to_cart", Err("Only n items available in stock"))
        ELSE IF newq > MAX_QUANTITY_PER_ITEM
        THEN Reject("add_item_to_cart", Err("Maximum quantity per item is 99"))
        ELSE /\ newq <= MaxQty
             /\ idx = {} => cartSeq < MaxCartItemId
             /\ cartItems' = IF idx = {}
                             THEN Append(cartItems, [id |-> cartSeq + 1, user |-> u,
                                                     product |-> p,
                                                     price |-> product[p].price,
                                                     quantity |-> q])
                             ELSE [cartItems EXCEPT ![i].quantity = newq]
             /\ cartSeq' = IF idx = {} THEN cartSeq + 1 ELSE cartSeq
             /\ last' = Response("add_item_to_cart", TRUE, NoErr)
             /\ UNCHANGED <<inventoryTransactions, inflight, product, inventory, orders, orderItems, history,
                            coupon, couponUsages, now>>

(* catalog management: a product's live price is edited *)
SetPrice(p, v) ==
    /\ product[p].price # v
    /\ product' = [product EXCEPT ![p].price = v]
    /\ last' = Response("set_price", TRUE, NoErr)
    /\ UNCHANGED <<inventoryTransactions, inflight, inventory, cartItems, cartSeq, orders, orderItems, history, coupon,
                   couponUsages, now>>

(* catalog management: a product is switched on or off *)
SetAvailable(p, b) ==
    /\ product[p].is_available # b
    /\ product' = [product EXCEPT ![p].is_available = b]
    /\ last' = Response("set_available", TRUE, NoErr)
    /\ UNCHANGED <<inventoryTransactions, inflight, inventory, cartItems, cartSeq, orders, orderItems, history, coupon,
                   couponUsages, now>>

(* an administrator edits the stock level: ProductInventory.save() *)
SetStock(p, q) ==
    /\ HasInventory(DB, p)
    /\ inventory[p].quantity # q
    /\ Commit(InventorySave(DB, p, q))
    /\ last' = Response("set_stock", TRUE, NoErr)
    /\ UNCHANGED <<now, cartSeq, inventoryTransactions, inflight>>

(* an administrator switches auto_disable_on_zero: ProductInventory.save() *)
SetAutoDisable(p, b) ==
    /\ HasInventory(DB, p)
    /\ inventory[p].auto_disable_on_zero # b
    /\ Commit(InventorySave([DB EXCEPT !.inventory[p].auto_disable_on_zero = b],
                            p, inventory[p].quantity))
    /\ last' = Response("set_auto_disable", TRUE, NoErr)
    /\ UNCHANGED <<now, cartSeq, inventoryTransactions, inflight>>

(* timezone.now() advances *)
Tick ==
    /\ now < MaxTime
    /\ now' = now + 1
    /\ last' = Response("tick", TRUE, NoErr)
    /\ UNCHANGED <<inventoryTransactions, inflight, product, inventory, cartItems, cartSeq, orders, orderItems,
                   history, coupon, couponUsages>>

CheckoutContext(db, u, a, raw, live) ==
    LET lines == UserCartItems(db, u)
        subtotal == LineTotal(lines)
        code == NormalizeCode(raw)
        given == IF live THEN code # << >> ELSE raw # << >>
        ap == IF given THEN ApplyCoupon(db, u, code, subtotal, now)
              ELSE [err |-> NoErr, discount |-> 0, final |-> subtotal]
    IN  [user |-> u, address |-> a, lines |-> lines, subtotal |-> subtotal,
         code |-> code, coupon |-> given, couponErr |-> ap.err,
         discount |-> ap.discount, final |-> ap.final, live |-> live]

(* OrderService.create_order; failAt = k > 0: the k-th write of the         *)
(* transaction raises (storage failure)                                     *)
CreateOrder(u, a, raw, failAt) ==
    LET db == DB
        ctx == CheckoutContext(db, u, a, raw, FALSE)
        cartErr == ValidateCartForCheckout(db, u)
        steps == CreateSteps(ctx)
        raised == failAt > 0
        st0 == [db |-> db, order |-> << >>, oid |-> 0]
        ran == RunSteps(st0, steps, IF raised THEN failAt - 1 ELSE Len(steps), ctx)
    IN  IF AddressOwner[a] # u
        THEN failAt = 0 /\ Reject("create_order", Err("Not found"))
        ELSE IF cartErr # NoErr
        THEN failAt = 0 /\ Reject("create_order", cartErr)
        ELSE IF ctx.couponErr # NoErr
        THEN failAt = 0 /\ Reject("create_order", ctx.couponErr)
        ELSE /\ Len(orders) < MaxOrders
             /\ failAt <= Len(steps)
             /\ last' = Response("create_order", ~raised,
                                 IF raised
                                 THEN [msg |-> "Internal error",
                                       names |-> <<steps[failAt].kind>>,
                                       stock |-> << >>]
                                 ELSE NoErr)
             /\ Commit(TransactionAtomic(db, ran.db, raised))
             /\ UNCHANGED <<now, cartSeq, inventoryTransactions, inflight>>

(* CreateOrderAPIView.post *)
CreateOrderView(u, a, raw) ==
    LET db == DB
        ctx == CheckoutContext(db, u, a, raw, TRUE)
        unav == SelectSeq(ctx.lines, LAMBDA it : ~db.product[it.product].is_available)
        steps == CreateSteps(ctx)
        st0 == [db |-> db, order |-> << >>, oid |-> 0]
        ran == RunSteps(st0, steps, Len(steps), ctx)
    IN  IF AddressOwner[a] # u
        THEN Reject("post_create_order", Err("Not found"))
        ELSE IF ctx.lines = << >>
        THEN Reject("post_create_order", Err("Cart is empty"))
        ELSE IF unav # << >>
        THEN Reject("post_create_order", [msg |-> "The following products are no longer available",
                     names |-> [i \in 1..Len(unav) |-> ProductName[unav[i].product]],
                     stock |-> << >>])
        ELSE IF ctx.couponErr # NoErr
        THEN Reject("post_create_order", ctx.couponErr)
        ELSE /\ Len(orders) < MaxOrders
             /\ Commit(TransactionAtomic(db, ran.db, FALSE))
             /\ last' = Response("post_create_order", TRUE, NoErr)
             /\ UNCHANGED <<now, cartSeq, inventoryTransactions, inflight>>

(* OrderService.update_order_status *)
UpdateOrderStatus(oid, new_status) ==
    IF oid \notin 1..Len(orders)
    THEN Reject("update_order_status", Err("Not found"))
    ELSE IF new_status \notin Range(STATUS_CHOICES)
    THEN Reject("update_order_status", Err("Invalid status"))
    ELSE IF ~IsValidStatusTransition(orders[oid].status, new_status)
    THEN Reject("update_order_status", Err("Cannot transition"))
    ELSE /\ last' = Response("update_order_status", TRUE, NoErr)
         /\ Commit(OrderSave(DB, oid, [orders[oid] EXCEPT !.status = new_status],
                             {"status"}))
         /\ UNCHANGED <<now, cartSeq, inventoryTransactions, inflight>>

(* UpdateOrderStatusAPIView.patch *)
PatchOrderStatus(oid, new_status) ==
    IF oid \notin 1..Len(orders)
    THEN Reject("patch_status", Err("Not found"))
    ELSE IF new_status \notin Range(STATUS_CHOICES)
    THEN Reject("patch_status", Err("Invalid status"))
    ELSE /\ Len(history[oid]) < MaxHistory
         /\ last' = Response("patch_status", TRUE, NoErr)
         /\ Commit(OrderSave(DB, oid, [orders[oid] EXCEPT !.status = new_status],
                             AllOrderFields))
         /\ UNCHANGED <<now, cartSeq, inventoryTransactions, inflight>>

(* getattr(obj, name) succeeds *)
HasAttr(obj, name) == name \in DOMAIN obj

RECURSIVE RestoreInventory(_, _)
RestoreInventory(db, items) ==
    IF items = << >> THEN db
    ELSE LET p == Head(items).product
         IN  RestoreInventory(
                 IF HasInventory(db, p)
                 THEN InventorySave(db, p, db.inventory[p].quantity + Head(items).quantity)
                 ELSE db,
                 Tail(items))

(* a lookup that ignores whose order it is *)
OrderExists(db, oid, u) == oid \in 1..Len(db.orders)

(* get_object_or_404(Order, id=order_id, user=user) finds a row *)
OrderOfUserExists(db, oid, u) ==
    oid \in 1..Len(db.orders) /\ db.orders[oid].user = u

(* a status test that lets a delivered order through *)
CannotCancelOnlyCancelled(status) == status = "cancelled"

(* order.status in ['delivered', 'cancelled'] *)
CannotCancel(status) == status \in {"delivered", "cancelled"}

(* OrderService.cancel_order *)
CancelOrder(oid, u) ==
    LET db == DB
        items == OrderItemsOf(db, oid)
        raised == \E i \in 1..Len(items) : ~HasAttr(items[i], "product")
        restored == IF raised THEN db ELSE RestoreInventory(db, items)
        post == OrderSave(restored, oid, [orders[oid] EXCEPT !.status = "cancelled"],
                          {"status"})
    IN  IF ~OrderOfUserExists(db, oid, u)
        THEN Reject("cancel_order", Err("Not found"))
        ELSE IF CannotCancel(orders[oid].status)
        THEN Reject("cancel_order", [msg |-> "Cannot cancel order with status",
                     names |-> <<orders[oid].status>>, stock |-> << >>])
        ELSE /\ Commit(TransactionAtomic(db, post, raised))
             /\ last' = Response("cancel_order", ~raised,
                                 IF raised THEN Err("AttributeError") ELSE NoErr)
             /\ UNCHANGED <<now, cartSeq, inventoryTransactions, inflight>>

(* ------------------- requests served at the same time ------------------ *)
(* create_order and update_order_status read before they write, take no    *)
(* row lock (no select_for_update) and create_order reads before it enters  *)
(* transaction.atomic(); a request is therefore two steps, between which    *)
(* other requests may run.  seen: the model instances the request holds in  *)
(* memory (cart items with their product, its inventory, the coupon).       *)
MaxRaceOrders == MaxOrders + 1

CheckoutsInFlight == {r \in Requests : inflight[r].kind = "create_order"}

(* a counter update made in the database: SET count = count + 1 *)
SeenIncrementUsageInDatabase(db, seen, code) ==
    [db EXCEPT !.coupon[code].current_usage_count = @ + 1]

(* Coupon.increment_usage on the instance read by _apply_coupon *)
SeenIncrementUsage(db, seen, code) ==
    [db EXCEPT !.coupon[code].current_usage_count =
                   seen.coupon[code].current_usage_count + 1]

(* ProductInventory.save(update_fields=['quantity']) on the cached instance *)
SeenInventorySave(db, seen, p, q) ==
    LET db1 == [db EXCEPT !.inventory[p].quantity = q]
    IN  IF seen.inventory[p].auto_disable_on_zero /\ q = 0
           /\ seen.product[p].is_available
        THEN [db1 EXCEPT !.product[p].is_available = FALSE]
        ELSE db1

(* inventory.quantity -= item.quantity on the instance cached by validation *)
SeenDecrementInventory(db, seen, line) ==
    IF HasInventory(seen, line.product)
    THEN SeenInventorySave(db, seen, line.product,
                           seen.inventory[line.product].quantity - line.quantity)
    ELSE db

ApplySeenStep(st, step, ctx, seen) ==
    CASE step.kind = "inventory" ->
           [st EXCEPT !.db = SeenDecrementInventory(st.db, seen, ctx.lines[step.line])]
      [] step.kind = "increment" ->
           [st EXCEPT !.db = SeenIncrementUsage(st.db, seen, ctx.code)]
      [] OTHER -> ApplyStep(st, step, ctx)

RECURSIVE RunSeenSteps(_, _, _, _, _)
RunSeenSteps(st, steps, n, ctx, seen) ==
    IF n = 0 THEN st
    ELSE LET done == RunSeenSteps(st, steps, n - 1, ctx, seen)
         IN  ApplySeenStep(done, steps[n], ctx, seen)

(* OrderService.create_order up to "with transaction.atomic():" *)
BeginCreateOrder(r, u, a, raw) ==
    LET db == DB
        ctx == CheckoutContext(db, u, a, raw, FALSE)
        cartErr == ValidateCartForCheckout(db, u)
    IN  /\ inflight[r] = Idle
        /\ IF AddressOwner[a] # u
           THEN Reject("create_order", Err("Not found"))
           ELSE IF cartErr # NoErr
           THEN Reject("create_order", cartErr)
           ELSE IF ctx.couponErr # NoErr
           THEN Reject("create_order", ctx.couponErr)
           ELSE /\ Len(orders) + Cardinality(CheckoutsInFlight) < MaxRaceOrders
                /\ inflight' = [inflight EXCEPT ![r] =
                       [kind |-> "create_order", ctx |-> ctx,
                        seen |-> [inventory |-> inventory, product |-> product,
                                  coupon |-> coupon]]]
                /\ UNCHANGED <<inventoryTransactions, product, inventory, cartItems,
                               cartSeq, orders, orderItems, history, coupon,
                               couponUsages, now, last>>

(* the transaction.atomic() block of OrderService.create_order *)
FinishCreateOrder(r) ==
    /\ inflight[r].kind = "create_order"
    /\ LET ctx == inflight[r].ctx
           steps == CreateSteps(ctx)
           st0 == [db |-> DB, order |-> << >>, oid |-> 0]
       IN  Commit(RunSeenSteps(st0, steps, Len(steps), ctx, inflight[r].seen).db)
    /\ last' = Response("create_order", TRUE, NoErr)
    /\ inflight' = [inflight EXCEPT ![r] = Idle]
    /\ UNCHANGED <<now, cartSeq, inventoryTransactions>>

(* OrderService.update_order_status up to order.save *)
BeginUpdateOrderStatus(r, oid, new_status) ==
    /\ inflight[r] = Idle
    /\ IF oid \notin 1..Len(orders)
       THEN Reject("update_order_status", Err("Not found"))
       ELSE IF new_status \notin Range(STATUS_CHOICES)
       THEN Reject("update_order_status", Err("Invalid status"))
       ELSE IF ~IsValidStatusTransition(orders[oid].status, new_status)
       THEN Reject("update_order_status", Err("Cannot transition"))
       ELSE /\ inflight' = [inflight EXCEPT ![r] =
                   [kind |-> "update_order_status", oid |-> oid,
                    status |-> new_status]]
            /\ UNCHANGED <<inventoryTransactions, product, inventory, cartItems,
                           cartSeq, orders, orderItems, history, coupon,
                           couponUsages, now, last>>

(* order.save(update_fields=['status']) of OrderService.update_order_status *)
FinishUpdateOrderStatus(r) ==
    /\ inflight[r].kind = "update_order_status"
    /\ Len(history[inflight[r].oid]) < MaxHistory
    /\ last' = Response("update_order_status", TRUE, NoErr)
    /\ Commit(OrderSave(DB, inflight[r].oid,
                        [orders[inflight[r].oid] EXCEPT !.status = inflight[r].status],
                        {"status"}))
    /\ inflight' = [inflight EXCEPT ![r] = Idle]
    /\ UNCHANGED <<now, cartSeq, inventoryTransactions>>


(* ---------------- Coupon.calculate_discount called directly ------------ *)
DiscountTypes == {"percentage", "fixed"}
DiscountValues == {1000, 2500, 15000}
MinimumAmounts == {0, 1000}
Caps == {None, 0, 50, 300}
OrderAmounts == {0, 2, 6, 500, 1000, 2000}

(* a coupon of any configuration the admin form accepts *)
InitDiscount ==
    /\ product = [p \in Products |-> [price |-> IF p = 1 THEN 1000 ELSE 700,
                                       is_available |-> TRUE]]
    /\ inventory = (1 :> [quantity |-> MaxQty, auto_disable_on_zero |-> TRUE])
    /\ cartItems = << >>
    /\ cartSeq = 0
    /\ orders = << >>
    /\ orderItems = << >>
    /\ history = << >>
    /\ \E ty \in DiscountTypes, v \in DiscountValues, m \in MinimumAmounts,
          cap \in Caps :
          coupon = (CodeS1 :> [InitialCoupons[CodeS1] EXCEPT
                                  !.discount_type = ty,
                                  !.discount_value = v,
                                  !.minimum_order_amount = m,
                                  !.maximum_discount_amount = cap])
    /\ couponUsages = << >>
    /\ now = 0
    /\ last = Response("init", TRUE, NoErr)
    /\ inventoryTransactions = << >>
    /\ inflight = [r \in Requests |-> Idle]

(* coupon.calculate_discount(order_amount) *)
CalculateDiscountCall(code, order_amount) ==
    /\ code \in DOMAIN coupon
    /\ last' = [op |-> "calculate_discount", ok |-> TRUE, err |-> NoErr,
                amount |-> order_amount,
                discount |-> CalculateDiscount(coupon[code], order_amount)[1],
                final |-> CalculateDiscount(coupon[code], order_amount)[2]]
    /\ UNCHANGED <<inventoryTransactions, inflight, product, inventory, cartItems,
                   cartSeq, orders, orderItems, history, coupon, couponUsages, now>>


(* ======================= properties of the order core ================== *)
Unchanged ==
    /\ product' = product /\ inventory' = inventory /\ cartItems' = cartItems
    /\ orders' = orders /\ orderItems' = orderItems /\ history' = history
    /\ coupon' = coupon /\ couponUsages' = couponUsages

(* the transition table of the order lifecycle, as documented *)
AllowedTransitions(S) ==
    CASE S = "pending" -> {"preparing", "cancelled"}
      [] S = "preparing" -> {"on_the_way", "cancelled"}
      [] S = "on_the_way" -> {"delivered", "cancelled"}
      [] S = "delivered" -> {}
      [] S = "cancelled" -> {}

OrderStatuses == {"pending", "preparing", "on_the_way", "delivered", "cancelled"}

(* C1: for every order in status S and every target T of the five statuses, *)
(* update_order_status succeeds iff T is in the table entry of S or T = S;  *)
(* a rejected call leaves the status unchanged and appends no history row.  *)
C1_StatusTotality ==
    [][\A oid \in 1..Len(orders), T \in OrderStatuses :
          last'.op = "update_order_status" =>
             \/ /\ last'.ok <=> (T \in AllowedTransitions(orders[oid].status)
                                 \/ T = orders[oid].status)
                /\ last'.ok => orders'[oid].status = T
                /\ ~last'.ok => orders' = orders /\ history' = history
             \/ ~UpdateOrderStatus(oid, T)]_vars

(* a delivered order was refused a further transition *)
C1_Witness ==
    /\ last.op = "update_order_status" /\ ~last.ok
    /\ last.err.msg = "Cannot transition"
    /\ Len(orders) >= 1 /\ orders[1].status = "delivered"

(* C2: every persisted Order has total_price = subtotal - discount_amount   *)
(* and total_price >= 0, whichever entry point created it.                  *)
C2_OrderTotals ==
    \A oid \in 1..Len(orders) :
       /\ orders[oid].total_price = orders[oid].subtotal - orders[oid].discount_amount
       /\ orders[oid].total_price >= 0

(* C4: every order creation and every accepted status change appends        *)
(* exactly one history row, so an order has 1 + (status changes) rows; the  *)
(* first row is pending and the newest row is the current status; a save    *)
(* that does not change the status appends none.                            *)
C4_HistoryState ==
    /\ Len(history) = Len(orders)
    /\ \A oid \in 1..Len(orders) :
          /\ Len(history[oid]) >= 1
          /\ history[oid][1] = "pending"
          /\ history[oid][Len(history[oid])] = orders[oid].status

C4_HistoryStep ==
    \A oid \in 1..Len(orders') :
       IF oid > Len(orders) THEN history'[oid] = <<"pending">>
       ELSE IF orders'[oid].status # orders[oid].status
            THEN history'[oid] = Append(history[oid], orders'[oid].status)
            ELSE history'[oid] = history[oid]

C4_History == []C4_HistoryState /\ [][C4_HistoryStep]_vars

(* an order went pending -> preparing -> on_the_way after a checkout of two *)
(* lines, whose subtotal was recalculated on the way                        *)
C4_Witness ==
    /\ Len(orders) >= 1
    /\ Len(OrderItemsOf(DB, 1)) = 2
    /\ history[1] = <<"pending", "preparing", "on_the_way">>
    /\ last.op = "update_order_status" /\ last.ok

(* the writes create_order may fail at: one Order, an OrderItem and an      *)
(* inventory save per cart line, the CouponUsage row, the usage counter and *)
(* the cart deletion                                                        *)
FailPoints(u) == 0..(2 * Len(UserCartItems(DB, u)) + 4)

(* C3: create_order is all-or-nothing: when a step fails (cart validation,  *)
(* coupon validation or a storage failure at any write) no Order, OrderItem *)
(* or CouponUsage row of the attempt exists, inventory, availability and    *)
(* the usage counter keep their values and the cart lines are still there.  *)
C3_AllOrNothing ==
    [][\A u \in Users, a \in Addresses, raw \in CheckoutCodes :
          \A failAt \in FailPoints(u) :
             last'.op = "create_order" =>
                \/ /\ failAt > 0 => ~last'.ok
                   /\ ~last'.ok => Unchanged
                \/ ~CreateOrder(u, a, raw, failAt)]_vars

(* the usage counter save raised after the order, its items, the stock save *)
(* and the CouponUsage row had been written                                 *)
C3_Witness ==
    /\ last.op = "create_order" /\ ~last.ok
    /\ last.err.msg = "Internal error" /\ last.err.names = <<"increment">>
    /\ cartItems # << >> /\ orders = << >>

(* the cart lines of user u, as the checkout reads them *)
CartLines(u) == SelectSeq(cartItems, LAMBDA it : it.user = u)

ShortLines(u) ==
    SelectSeq(CartLines(u), LAMBDA it :
        /\ it.product \in DOMAIN inventory
        /\ inventory[it.product].quantity < it.quantity)

(* the lines of u's cart whose product is not available *)
UnavailableLines(u) ==
    SelectSeq(CartLines(u), LAMBDA it : ~product[it.product].is_available)

StockMessage(u) ==
    [i \in 1..Len(ShortLines(u)) |->
        [name |-> ProductName[ShortLines(u)[i].product],
         available |-> inventory[ShortLines(u)[i].product].quantity]]

(* C8 as stated: a create_order (for an address of the user) with a cart    *)
(* line whose product tracks stock and has fewer units than the line asks   *)
(* for is rejected with a message naming the product and the available      *)
(* count, and no stock is decremented.                                      *)
C8_ShortageAlwaysNamed ==
    [][\A u \in Users, a \in Addresses :
          (last'.op = "create_order" /\ AddressOwner[a] = u
             /\ ShortLines(u) # << >> /\ CreateOrder(u, a, << >>, 0)) =>
                /\ ~last'.ok
                /\ last'.err.msg = "Insufficient stock"
                /\ last'.err.stock = StockMessage(u)
                /\ inventory' = inventory /\ orders' = orders]_vars

(* C8: such a create_order is rejected, decrements no stock and creates no  *)
(* order; its message names each short product and its available count      *)
(* when no product of the cart is unavailable (unavailable products are     *)
(* reported first, by name only).                                           *)
C8_ShortageRejected ==
    [][\A u \in Users, a \in Addresses :
          (last'.op = "create_order" /\ AddressOwner[a] = u
             /\ ShortLines(u) # << >> /\ CreateOrder(u, a, << >>, 0)) =>
                /\ ~last'.ok
                /\ Unchanged
                /\ UnavailableLines(u) = << >> =>
                      /\ last'.err.msg = "Insufficient stock"
                      /\ last'.err.stock = StockMessage(u)
                /\ UnavailableLines(u) # << >> =>
                      last'.err.msg = "The following products are no longer available"]_vars

(* a checkout was refused for stock, naming Burger and the units left *)
C8_Witness ==
    /\ last.op = "create_order" /\ ~last.ok
    /\ last.err.msg = "Insufficient stock"
    /\ \E n \in 0..MaxQty : last.err.stock = <<[name |-> "Burger", available |-> n]>>
    /\ orders = << >>

(* C9: a create_order (for an address of the user) with an unavailable      *)
(* product in the cart is rejected with a message listing every unavailable *)
(* product name, and creates nothing.                                       *)
C9_UnavailableRejected ==
    [][\A u \in Users, a \in Addresses :
          (last'.op = "create_order" /\ AddressOwner[a] = u
             /\ UnavailableLines(u) # << >> /\ CreateOrder(u, a, << >>, 0)) =>
                /\ ~last'.ok
                /\ last'.err.msg = "The following products are no longer available"
                /\ Len(last'.err.names) = Len(UnavailableLines(u))
                /\ Range(last'.err.names) =
                      {ProductName[p] : p \in {l.product : l \in Range(UnavailableLines(u))}}
                /\ Unchanged]_vars

(* a checkout was refused naming both products of the cart *)
C9_Witness ==
    /\ last.op = "create_order" /\ ~last.ok
    /\ last.err.msg = "The following products are no longer available"
    /\ Range(last.err.names) = {"Burger", "Pizza"}

(* C10: a create_order (for an address of the user) with an empty cart is   *)
(* rejected with 'Cart is empty' and creates nothing; every persisted Order *)
(* has at least one OrderItem.                                              *)
C10_OrdersHaveItems ==
    \A oid \in 1..Len(orders) : Len(OrderItemsOf(DB, oid)) >= 1

C10_EmptyCartStep ==
    \A u \in Users, a \in Addresses :
       (last'.op = "create_order" /\ AddressOwner[a] = u
          /\ CartLines(u) = << >> /\ CreateOrder(u, a, << >>, 0)) =>
             /\ ~last'.ok
             /\ last'.err.msg = "Cart is empty"
             /\ Unchanged

C10_EmptyCart == []C10_OrdersHaveItems /\ [][C10_EmptyCartStep]_vars

(* a checkout of an empty cart was refused while an order exists *)
C10_Witness ==
    /\ last.op = "create_order" /\ ~last.ok
    /\ last.err.msg = "Cart is empty"
    /\ Len(orders) = 1

(* the stored code of each coupon code a client may send *)
StoredCode(raw) ==
    CASE raw = <<" ", "s", "1", " ">> -> CodeS1
      [] raw = <<"f", "8">> -> CodeF8
      [] raw = <<"X">> -> CodeX
      [] raw = <<"Z">> -> <<"Z">>
      [] raw = <<" ">> -> << >>
      [] raw = << >> -> << >>

(* C6: a successful create_order that applies a coupon records exactly one  *)
(* CouponUsage row for (coupon, user, order) whose amounts are the order's  *)
(* subtotal, discount and total, raises the coupon's usage counter by       *)
(* exactly 1 and stores the normalized code on the order; without a coupon  *)
(* it records no usage row and changes no counter.                          *)
C6_CouponRecorded ==
    [][\A u \in Users, raw \in RawCodes :
          (last'.op = "create_order" /\ last'.ok
             /\ CreateOrder(u, AddressOf(u), raw, 0)) =>
             LET oid == Len(orders')
                 code == StoredCode(raw)
             IN  IF raw # << >>
                 THEN /\ couponUsages' = Append(couponUsages,
                            [coupon |-> code, user |-> u, order_id |-> oid,
                             order_amount |-> orders'[oid].subtotal,
                             discount_amount |-> orders'[oid].discount_amount,
                             final_amount |-> orders'[oid].total_price])
                      /\ code \in DOMAIN coupon
                      /\ coupon' = [coupon EXCEPT ![code].current_usage_count = @ + 1]
                      /\ orders'[oid].coupon_code = code
                 ELSE /\ couponUsages' = couponUsages
                      /\ coupon' = coupon
                      /\ orders'[oid].coupon_code = << >>
                      /\ orders'[oid].discount_amount = 0]_vars

(* an order placed with the code " s1 " stores S1 and its usage *)
C6_Witness ==
    /\ last.op = "create_order" /\ last.ok
    /\ Len(orders) = 1 /\ orders[1].coupon_code = CodeS1
    /\ orders[1].discount_amount = 100 /\ orders[1].total_price = 900
    /\ Len(couponUsages) = 1
    /\ coupon[CodeS1].current_usage_count = 1

(* the coupon sent as raw fails validation for user u: unknown code,        *)
(* inactive, outside its window, total limit reached, user not allowed,     *)
(* per-user limit reached, or cart subtotal below the minimum               *)
CouponFails(u, raw) ==
    LET code == StoredCode(raw)
        c == coupon[code]
        used == Len(SelectSeq(couponUsages,
                        LAMBDA r : r.coupon = code /\ r.user = u))
    IN  \/ code \notin DOMAIN coupon
        \/ ~c.is_active
        \/ now < c.valid_from
        \/ now > c.valid_until
        \/ (c.max_usage_total # None /\ c.current_usage_count >= c.max_usage_total)
        \/ (c.is_user_specific /\ u \notin c.allowed_users)
        \/ used >= c.max_usage_per_user
        \/ LineTotal(CartLines(u)) < c.minimum_order_amount

(* C7: a create_order given a coupon code that fails validation is rejected *)
(* entirely: no order is created, with or without the discount, and nothing *)
(* else is written.                                                         *)
C7_BadCouponRejected ==
    [][\A u \in Users, raw \in RawCodes \ {<< >>} :
          last'.op = "create_order" =>
             \/ ~last'.ok /\ Unchanged
             \/ ~CouponFails(u, raw)
             \/ ~CreateOrder(u, AddressOf(u), raw, 0)]_vars

(* a checkout below the coupon's minimum order amount was refused *)
C7_Witness ==
    /\ last.op = "create_order" /\ ~last.ok
    /\ last.err.msg = "Minimum order amount required for this coupon"
    /\ orders = << >>

(* ------------------------------ cancellation --------------------------- *)
Cancellable == {"pending", "preparing", "on_the_way"}

RECURSIVE UnitsOf(_, _)
UnitsOf(items, p) ==
    IF items = << >> THEN 0
    ELSE (IF Head(items).product_id = p THEN Head(items).quantity ELSE 0)
         + UnitsOf(Tail(items), p)

(* C11: cancel_order by the owner of an order that is pending, preparing or *)
(* on_the_way succeeds: the status becomes cancelled, the inventory of every *)
(* line whose product has an inventory record grows by the line's quantity, *)
(* and exactly one history row 'cancelled' is appended.                     *)
C11_OwnerCancelSucceeds ==
    [][\A oid \in 1..Len(orders), u \in Users :
          (/\ last'.op = "cancel_order"
           /\ orders[oid].user = u
           /\ orders[oid].status \in Cancellable) =>
             \/ /\ last'.ok
                /\ orders'[oid].status = "cancelled"
                /\ history'[oid] = Append(history[oid], "cancelled")
                /\ \A p \in DOMAIN inventory :
                      inventory'[p].quantity =
                          inventory[p].quantity + UnitsOf(OrderItemsOf(DB, oid), p)
             \/ ~CancelOrder(oid, u)]_vars

(* C12: cancel_order on a delivered or cancelled order is rejected with a   *)
(* validation error that names the current status; status, history and      *)
(* inventory stay as they were.                                             *)
C12_TerminalCancelRejected ==
    [][\A oid \in 1..Len(orders), u \in Users :
          (/\ last'.op = "cancel_order"
           /\ orders[oid].user = u
           /\ orders[oid].status \in {"delivered", "cancelled"}) =>
             \/ /\ ~last'.ok
                /\ last'.err.msg = "Cannot cancel order with status"
                /\ last'.err.names = <<orders[oid].status>>
                /\ orders' = orders /\ history' = history
                /\ inventory' = inventory
             \/ ~CancelOrder(oid, u)]_vars

(* the owner's cancel of a delivered order was refused, and the stock taken *)
(* by the order is still taken                                              *)
C12_Witness ==
    /\ last.op = "cancel_order" /\ ~last.ok
    /\ last.err.names = <<"delivered">>
    /\ Len(orders) = 1 /\ orders[1].status = "delivered"
    /\ inventory[1].quantity < MaxQty

(* C13: cancel_order on an order of another user fails whatever the order's *)
(* status is (the order is not found for that user); status, history and    *)
(* inventory stay as they were.                                             *)
C13_ForeignCancelFails ==
    [][\A oid \in 1..Len(orders), u \in Users :
          (last'.op = "cancel_order" /\ orders[oid].user # u) =>
             \/ /\ ~last'.ok
                /\ last'.err.msg = "Not found"
                /\ orders' = orders /\ history' = history
                /\ inventory' = inventory
             \/ ~CancelOrder(oid, u)]_vars

(* another user's cancel of a pending order was refused *)
C13_Witness ==
    /\ last.op = "cancel_order" /\ ~last.ok /\ last.err.msg = "Not found"
    /\ Len(orders) = 1 /\ orders[1].user = "u1" /\ orders[1].status = "pending"

(* --------------------------- inventory ledger -------------------------- *)
(* the quantity each inventory record starts with *)
InitialQuantity(p) == MaxQty

RECURSIVE LedgerSum(_, _)
LedgerSum(rows, p) ==
    IF rows = << >> THEN 0
    ELSE (IF Head(rows).inventory = p THEN Head(rows).quantity_change ELSE 0)
         + LedgerSum(Tail(rows), p)

(* C15: for every inventory record, the initial quantity plus the sum of    *)
(* the quantity_change of its InventoryTransaction rows equals the current  *)
(* quantity: every decrement made by create_order and every restore made by *)
(* cancel_order has its ledger row.                                         *)
C15_LedgerReconstructs ==
    \A p \in DOMAIN inventory :
        InitialQuantity(p) + LedgerSum(inventoryTransactions, p)
            = inventory[p].quantity

(* ----------------------- the status endpoint --------------------------- *)
(* C18: the PATCH status endpoint changes an order's status only to the     *)
(* same status or to a target of the transition table; a delivered or       *)
(* cancelled order is never moved to another status.                        *)
C18_PatchFollowsStateMachine ==
    [][last'.op = "patch_status" =>
          \A oid \in 1..Len(orders) :
              \/ orders'[oid].status = orders[oid].status
              \/ orders'[oid].status \in AllowedTransitions(orders[oid].status)]_vars

(* ---------------------- view against service --------------------------- *)
(* what OrderService.create_order answers and stores for the same request *)
ServiceResult(u, a, raw) ==
    LET db == DB
        ctx == CheckoutContext(db, u, a, raw, FALSE)
        steps == CreateSteps(ctx)
        st0 == [db |-> db, order |-> << >>, oid |-> 0]
    IN  IF \/ AddressOwner[a] # u
           \/ ValidateCartForCheckout(db, u) # NoErr
           \/ ctx.couponErr # NoErr
        THEN [ok |-> FALSE, db |-> db]
        ELSE [ok |-> TRUE, db |-> RunSteps(st0, steps, Len(steps), ctx).db]

(* C20: the create-order endpoint answers and stores what                   *)
(* OrderService.create_order answers and stores for the same user, address  *)
(* and coupon code in the same state: the same rejections, order amounts,   *)
(* items, inventory decrements, coupon usage and emptied cart.              *)
C20_ViewMatchesService ==
    [][\A u \in Users, a \in Addresses, raw \in RawCodes :
          last'.op = "post_create_order" =>
             \/ /\ last'.ok = ServiceResult(u, a, raw).ok
                /\ Commit(ServiceResult(u, a, raw).db)
             \/ ~CreateOrderView(u, a, raw)]_vars

(* ------------------- requests served at the same time ------------------ *)
UsagesOf(code) == SelectSeq(couponUsages, LAMBDA row : row.coupon = code)

(* C14: for every coupon with max_usage_total set,                          *)
(* 0 <= current_usage_count <= max_usage_total in every reachable state,    *)
(* also when checkouts that present the same coupon run at the same time.   *)
C14_UsageCountWithinTotal ==
    \A code \in DOMAIN coupon :
        coupon[code].max_usage_total # None =>
            /\ 0 <= coupon[code].current_usage_count
            /\ coupon[code].current_usage_count <= coupon[code].max_usage_total

(* two checkouts that presented coupon S1 (one use in total) at the same    *)
(* time have both been committed                                            *)
C14_Witness ==
    /\ Len(UsagesOf(CodeS1)) = 2
    /\ coupon[CodeS1].current_usage_count = 1
    /\ \A r \in Requests : inflight[r] = Idle

(* C16: stock is never oversold when create_order requests run at the same  *)
(* time: the units placed into created orders never exceed the quantity     *)
(* that was available, and the inventory quantity equals the starting       *)
(* quantity minus the units of all created orders (the request that loses   *)
(* the race is rejected, not committed).                                    *)
C16_NeverOversold ==
    \A p \in DOMAIN inventory :
        /\ UnitsOf(orderItems, p) <= InitialQuantity(p)
        /\ inventory[p].quantity = InitialQuantity(p) - UnitsOf(orderItems, p)

(* C17: for every coupon and user the number of CouponUsage rows of the     *)
(* pair never exceeds the coupon's max_usage_per_user, also when the same   *)
(* user submits checkouts at the same time.                                 *)
C17_PerUserLimit ==
    \A code \in DOMAIN coupon, u \in Users :
        Len(SelectSeq(UsagesOf(code), LAMBDA row : row.user = u))
            <= coupon[code].max_usage_per_user

(* C19: under any interleaving of update_order_status and cancel_order on   *)
(* an order, its history rows are the sequence of statuses it took: every   *)
(* consecutive pair of rows is an allowed transition, no row follows        *)
(* delivered or cancelled, and the last row is the order's status.          *)
C19_HistoryMirrorsTransitions ==
    \A oid \in 1..Len(orders) :
        /\ history[oid][Len(history[oid])] = orders[oid].status
        /\ \A i \in 1..(Len(history[oid]) - 1) :
              /\ history[oid][i] \notin {"delivered", "cancelled"}
              /\ history[oid][i + 1] \in AllowedTransitions(history[oid][i])

(* ---------------------------- price snapshot --------------------------- *)
(* C21: an order placed through either entry point has as subtotal the sum  *)
(* over the cart lines of (price captured when the line was added) x        *)
(* quantity, and each OrderItem carries that cart-time price, also when the *)
(* catalog price changed in between; so the items' price x quantity sum to  *)
(* the order's subtotal.                                                    *)
C21_PriceSnapshot ==
    [][(/\ last'.op \in {"create_order", "post_create_order"}
        /\ last'.ok
        /\ Len(orders') = Len(orders) + 1) =>
          LET oid == Len(orders')
              lines == CartLines(orders'[oid].user)
              made == SelectSeq(orderItems', LAMBDA it : it.order = oid)
          IN  /\ orders'[oid].subtotal = LineTotal(lines)
              /\ Len(made) = Len(lines)
              /\ \A i \in 1..Len(lines) : made[i].price = lines[i].price
              /\ LineTotal(made) = orders'[oid].subtotal]_vars

RECURSIVE UnitsHeld(_, _)
(* units of product p in the items of orders that are not cancelled *)
UnitsHeld(items, p) ==
    IF items = << >> THEN 0
    ELSE (IF Head(items).product_id = p
             /\ orders[Head(items).order].status # "cancelled"
          THEN Head(items).quantity ELSE 0)
         + UnitsHeld(Tail(items), p)

(* C23: cancellation is all-or-nothing: in no reachable state was stock     *)
(* restored for an order that is not cancelled, and in none is an order     *)
(* cancelled without its tracked stock restored; the stock of a tracked     *)
(* product is its starting quantity minus the units of the orders that are  *)
(* not cancelled.                                                           *)
C23_CancelledIffRestored ==
    \A p \in DOMAIN inventory :
        inventory[p].quantity = InitialQuantity(p) - UnitsHeld(orderItems, p)

(* --------------------------- coupon usage ------------------------------ *)
(* C24: over any sequence of operations a coupon's current_usage_count      *)
(* never decreases and grows only by 1, at a successful order creation that *)
(* applied the coupon; cancel_order of an order that used a coupon leaves   *)
(* the counter and the CouponUsage rows as they were.                       *)
C24_UsageMonotonic ==
    [][/\ \A code \in DOMAIN coupon :
             \/ coupon'[code].current_usage_count = coupon[code].current_usage_count
             \/ /\ coupon'[code].current_usage_count
                       = coupon[code].current_usage_count + 1
                /\ last'.op = "create_order" /\ last'.ok
                /\ Len(orders') = Len(orders) + 1
                /\ orders'[Len(orders')].coupon_code = code
       /\ last'.op = "cancel_order" =>
             coupon' = coupon /\ couponUsages' = couponUsages]_vars

(* the owner asked to cancel a pending order that had used coupon S1; the   *)
(* coupon still counts one use and its usage row is still there             *)
C24_Witness ==
    /\ last.op = "cancel_order"
    /\ Len(orders) >= 1 /\ orders[1].coupon_code = CodeS1
    /\ orders[1].status = "pending"
    /\ coupon[CodeS1].current_usage_count = 1
    /\ Len(UsagesOf(CodeS1)) = 1

(* ------------------------- discount calculation ------------------------ *)
(* the coupon whose discount was calculated last *)
Calculated == coupon[CodeS1]

(* C25: for every coupon configuration (percentage or fixed, any value > 0, *)
(* any cap) and every order amount >= 0, calculate_discount returns         *)
(* (discount, final) with 0 <= discount <= amount and                       *)
(* final = amount - discount >= 0; an amount below minimum_order_amount     *)
(* yields discount 0 and final = amount; a fixed coupon whose value exceeds *)
(* an amount that reaches the minimum yields discount = amount, final = 0.  *)
C25_DiscountWithinAmount ==
    last.op = "calculate_discount" =>
        /\ 0 <= last.discount /\ last.discount <= last.amount
        /\ last.final = last.amount - last.discount
        /\ last.final >= 0
        /\ last.amount < Calculated.minimum_order_amount =>
              last.discount = 0 /\ last.final = last.amount
        /\ (/\ Calculated.discount_type = "fixed"
            /\ Calculated.discount_value > last.amount
            /\ last.amount >= Calculated.minimum_order_amount) =>
              last.discount = last.amount /\ last.final = 0

(* C25 as first stated: a fixed coupon whose value exceeds the order amount *)
(* yields discount = amount and final = 0, whatever the minimum is.         *)
C25_FixedAlwaysTakesAll ==
    (/\ last.op = "calculate_discount"
     /\ Calculated.discount_type = "fixed"
     /\ Calculated.discount_value > last.amount) =>
          last.discount = last.amount /\ last.final = 0

(* a fixed coupon worth more than a positive order amount took all of it *)
C25_Witness ==
    /\ last.op = "calculate_discount"
    /\ Calculated.discount_type = "fixed"
    /\ last.amount > 0 /\ Calculated.discount_value > last.amount
    /\ last.discount = last.amount /\ last.final = 0

(* C26: for a percentage coupon whose maximum_discount_amount is set (any   *)
(* value >= 0, 0.00 included) the discount never exceeds the cap; with no   *)
(* cap the discount is amount x discount_value / 100 rounded to two         *)
(* decimals, bounded only by the order amount.                              *)
C26_CapRespected ==
    (/\ last.op = "calculate_discount"
     /\ Calculated.discount_type = "percentage"
     /\ last.amount >= Calculated.minimum_order_amount) =>
          IF Calculated.maximum_discount_amount # None
          THEN last.discount <= Calculated.maximum_discount_amount
          ELSE last.discount =
                   Min(Quantize(last.amount * Calculated.discount_value, 10000),
                       last.amount)

(* --------------------------- self-transition --------------------------- *)
(* C27: update_order_status with a target equal to the order's current      *)
(* status succeeds for every status, delivered and cancelled included, and  *)
(* changes nothing: not the status, the history, the inventory or the       *)
(* coupon state.                                                            *)
C27_SelfTransitionNoOp ==
    [][\A oid \in 1..Len(orders) :
          last'.op = "update_order_status" =>
             \/ last'.ok /\ Unchanged
             \/ ~UpdateOrderStatus(oid, orders[oid].status)]_vars

(* a pending order was updated to pending: still one history row *)
C27_Witness ==
    /\ last.op = "update_order_status" /\ last.ok
    /\ Len(orders) = 1 /\ orders[1].status = "pending"
    /\ history[1] = <<"pending">>

(* ------------------------ coupon usage limits -------------------------- *)
(* C28: a coupon is deactivated when its usage limit is reached: once       *)
(* current_usage_count has reached max_usage_total the coupon's is_active   *)
(* flag is False.                                                           *)
C28_DeactivatedAtLimit ==
    \A code \in DOMAIN coupon :
        (/\ coupon[code].max_usage_total # None
         /\ coupon[code].current_usage_count >= coupon[code].max_usage_total) =>
              ~coupon[code].is_active

(* C29: a coupon's current_usage_count equals the number of CouponUsage     *)
(* rows that reference it in every reachable state, also when checkouts     *)
(* that apply the same coupon run at the same time.                         *)
C29_CounterMatchesRows ==
    \A code \in DOMAIN coupon :
        coupon[code].current_usage_count = Len(UsagesOf(code))

(* C30: a cart is converted into at most one order: every cart line ever    *)
(* created ends in at most one OrderItem, so there are never more orders or *)
(* order items than cart lines created, also when one user submits two      *)
(* create_order requests at the same time.                                  *)
C30_CartConvertedOnce ==
    /\ Len(orders) <= cartSeq
    /\ Len(orderItems) <= cartSeq

Next ==
    \/ \E u \in Users, p \in Products, q \in 0..MaxQty : AddItemToCart(u, p, q)
    \/ \E p \in Products, v \in Prices : SetPrice(p, v)
    \/ \E p \in Products, b \in BOOLEAN : SetAvailable(p, b)
    \/ \E p \in Products, q \in 0..MaxQty : SetStock(p, q)
    \/ \E p \in Products, b \in BOOLEAN : SetAutoDisable(p, b)
    \/ Tick
    \/ \E u \in Users, a \in Addresses, raw \in RawCodes :
          \E failAt \in FailPoints(u) : CreateOrder(u, a, raw, failAt)
    \/ \E u \in Users, a \in Addresses, raw \in RawCodes : CreateOrderView(u, a, raw)
    \/ \E oid \in 1..MaxOrders, t \in StatusTargets : UpdateOrderStatus(oid, t)
    \/ \E oid \in 1..MaxOrders, t \in StatusTargets : PatchOrderStatus(oid, t)
    \/ \E oid \in 1..MaxOrders, u \in Users : CancelOrder(oid, u)
    \/ \E r \in Requests, u \in Users, a \in Addresses, raw \in RawCodes :
          BeginCreateOrder(r, u, a, raw)
    \/ \E r \in Requests : FinishCreateOrder(r)
    \/ \E r \in Requests, oid \in 1..MaxOrders, t \in StatusTargets :
          BeginUpdateOrderStatus(r, oid, t)
    \/ \E r \in Requests : FinishUpdateOrderStatus(r)
    \/ \E code \in DOMAIN coupon, a \in OrderAmounts : CalculateDiscountCall(code, a)

(* the whole system: every operation with every input *)
Spec == Init /\ [][Next]_vars

(* ---- checkout: the carts of two users under a moving catalog price ---- *)
NextCheckout ==
    \/ \E u \in Users, p \in Products, q \in 0..MaxQty : AddItemToCart(u, p, q)
    \/ \E v \in Prices : SetPrice(1, v)
    \/ \E u \in Users, a \in Addresses, raw \in CheckoutCodes :
          CreateOrder(u, a, raw, 0)

SpecCheckout == Init /\ [][NextCheckout]_vars

(* ---- cart validation: stock and availability move under a cart -------- *)
NextValidation ==
    \/ \E p \in Products, q \in 0..MaxQty : AddItemToCart("u1", p, q)
    \/ \E p \in Products, b \in BOOLEAN : SetAvailable(p, b)
    \/ \E p \in Products, q \in 0..MaxQty : SetStock(p, q)
    \/ \E p \in Products, b \in BOOLEAN : SetAutoDisable(p, b)
    \/ \E a \in Addresses : CreateOrder("u1", a, << >>, 0)

SpecValidation == Init /\ [][NextValidation]_vars

(* ---- checkout with a storage failure at any write of the transaction -- *)
NextAtomic ==
    \/ \E p \in Products : AddItemToCart("u1", p, 1)
    \/ \E b \in BOOLEAN : SetAvailable(1, b)
    \/ \E a \in Addresses, raw \in CheckoutCodes :
          \E failAt \in FailPoints("u1") : CreateOrder("u1", a, raw, failAt)

SpecAtomic == Init /\ [][NextAtomic]_vars

(* ---- coupons: every way a code can fail, and the usage records -------- *)
NextCoupon ==
    \/ \E p \in Products, q \in 1..MaxQty : AddItemToCart("u1", p, q)
    \/ AddItemToCart("u2", 2, 1)
    \/ Tick
    \/ \E u \in Users, raw \in RawCodes : CreateOrder(u, AddressOf(u), raw, 0)

SpecCoupon == Init /\ [][NextCoupon]_vars

(* ---- prices: the catalog price moves under a filled cart -------------- *)
PriceCodes == {<< >>, <<"f", "8">>}

NextPrice ==
    \/ \E p \in Products, q \in 1..MaxQty : AddItemToCart("u1", p, q)
    \/ \E v \in Prices : SetPrice(1, v)
    \/ \E raw \in PriceCodes : CreateOrder("u1", 1, raw, 0)
    \/ \E raw \in PriceCodes : CreateOrderView("u1", 1, raw)

SpecPrice == Init /\ [][NextPrice]_vars

(* ---- lifecycle: the status of the orders of one user ------------------ *)
PatchTargets == {"pending", "refunded"}

(* status requests name the first order, or an id that no order has *)
StatusOrders == {1, MaxOrders + 1}

TargetsFor(oid) == IF oid = 1 THEN StatusTargets ELSE {"preparing"}

NextStatus ==
    \/ \E p \in Products : AddItemToCart("u1", p, 1)
    \/ CreateOrder("u1", 1, << >>, 0)
    \/ \E oid \in StatusOrders : \E t \in TargetsFor(oid) : UpdateOrderStatus(oid, t)
    \/ \E t \in PatchTargets : PatchOrderStatus(1, t)
    \/ \E u \in Users : CancelOrder(1, u)

SpecStatus == Init /\ [][NextStatus]_vars

NextRace ==
    \/ \E u \in Users : AddItemToCart(u, 1, 1)
    \/ \E r \in Requests, u \in Users, raw \in CheckoutCodes :
          BeginCreateOrder(r, u, AddressOf(u), raw)
    \/ \E r \in Requests : FinishCreateOrder(r)

SpecRace == Init /\ [][NextRace]_vars

NextStatusRace ==
    \/ \E p \in Products : AddItemToCart("u1", p, 1)
    \/ CreateOrder("u1", 1, << >>, 0)
    \/ \E r \in Requests, oid \in StatusOrders, t \in StatusTargets :
          BeginUpdateOrderStatus(r, oid, t)
    \/ \E r \in Requests : FinishUpdateOrderStatus(r)
    \/ CancelOrder(1, "u1")

SpecStatusRace == Init /\ [][NextStatusRace]_vars

(* ---- availability: stock, the auto-disable flag and one user's orders -- *)
NextAvailability ==
    \/ \E p \in Products, q \in 1..MaxQty : AddItemToCart("u1", p, q)
    \/ \E b \in BOOLEAN : SetAvailable(1, b)
    \/ \E q \in 0..MaxQty : SetStock(1, q)
    \/ \E b \in BOOLEAN : SetAutoDisable(1, b)
    \/ CreateOrder("u1", 1, << >>, 0)
    \/ \E t \in {"preparing", "cancelled"} : UpdateOrderStatus(1, t)
    \/ CancelOrder(1, "u1")

SpecAvailability == Init /\ [][NextAvailability]_vars

(* ---- coupon usage over the life of one user's orders ------------------- *)
NextUsage ==
    \/ \E p \in Products : AddItemToCart("u1", p, 1)
    \/ \E raw \in CheckoutCodes : CreateOrder("u1", 1, raw, 0)
    \/ \E t \in OrderStatuses : UpdateOrderStatus(1, t)
    \/ \E u \in Users : CancelOrder(1, u)
    \/ Tick

SpecUsage == Init /\ [][NextUsage]_vars

(* ---- the discount of one coupon for every order amount ---------------- *)
NextDiscount == \E a \in OrderAmounts : CalculateDiscountCall(CodeS1, a)

SpecDiscount == InitDiscount /\ [][NextDiscount]_vars
====
